---- MODULE Spec2Model ----
(***************************************************************************)
(* Martello-Toth bin packing solver (src/advanced/mtp/main.py):            *)
(* MTPBinPacking.solve as a state machine.  Reduction rounds, the bound    *)
(* computation, the iterative-deepening target loop, every step of the     *)
(* recursive bin-oriented search (with its explicit call stack) and the    *)
(* reconstruction are separate actions.  Item positions are the 1-based    *)
(* positions of TLA+ sequences; bin numbers, start_index and the loop      *)
(* index i keep the 0-based values of the Python code.                     *)
(***************************************************************************)
EXTENDS Integers, Sequences, FiniteSets, TLC

\* ---- bounds of the model -------------------------------------------------
MaxCap == 7
MaxItems == 5
MaxClock == 61
MaxCalls == 2

\* ---- program constants ---------------------------------------------------
DefaultTimeLimit == 60
CheckInterval == 5000
Unassigned == -1

\* ---- arithmetic helpers --------------------------------------------------
Max2(a, b) == IF a >= b THEN a ELSE b

Min2(a, b) == IF a <= b THEN a ELSE b

\* variant: floor plus one, wrong whenever b divides a
CeilDiv_floorPlusOne(a, b) == (a \div b) + 1

\* math.ceil(a / b) for a >= 0, b > 0
CeilDiv(a, b) == (a + b - 1) \div b

RECURSIVE SumSeq(_)
SumSeq(s) == IF s = <<>> THEN 0 ELSE Head(s) + SumSeq(Tail(s))

\* list.pop(k) with a 1-based position
RemoveAt(s, k) == SubSeq(s, 1, k - 1) \o SubSeq(s, k + 1, Len(s))

\* list.sort(reverse=True): insertion into a non-increasing list
RECURSIVE InsertDesc(_, _)
InsertDesc(w, s) ==
  IF s = <<>> THEN <<w>>
  ELSE IF w >= Head(s) THEN <<w>> \o s
  ELSE <<Head(s)>> \o InsertDesc(w, Tail(s))

RECURSIVE SortDesc(_)
SortDesc(s) == IF s = <<>> THEN <<>> ELSE InsertDesc(Head(s), SortDesc(Tail(s)))

\* ---- lower bounds ----------------------------------------------------------
compute_L1(its, C) == IF Len(its) = 0 THEN 0 ELSE CeilDiv(SumSeq(its), C)

\* one pass of the classification loop for a threshold K: returns L(K)
RECURSIVE ClassifyLoop(_, _, _, _, _, _, _, _)
ClassifyLoop(its, C, K, p, n1, n2, n2_sum, n3_sum) ==
  IF p > Len(its)
    THEN LET R_N2 == (n2 * C) - n2_sum
             excess == Max2(0, n3_sum - R_N2)
         IN  n1 + n2 + CeilDiv(excess, C)
    ELSE LET w == its[p] IN
         IF w > C - K THEN ClassifyLoop(its, C, K, p + 1, n1 + 1, n2, n2_sum, n3_sum)
         ELSE IF w > C \div 2 THEN ClassifyLoop(its, C, K, p + 1, n1, n2 + 1, n2_sum + w, n3_sum)
         ELSE IF w >= K THEN ClassifyLoop(its, C, K, p + 1, n1, n2, n2_sum, n3_sum + w)
         ELSE ClassifyLoop(its, C, K, p + 1, n1, n2, n2_sum, n3_sum)

\* variant: the free space beside the N2 items is not subtracted
L_K_noResidual(its, C, K) ==
  LET IsN1(w) == w > C - K
      IsN2(w) == w <= C - K /\ w > C \div 2
      IsN3(w) == w <= C - K /\ w <= C \div 2 /\ w >= K
  IN  Len(SelectSeq(its, IsN1)) + Len(SelectSeq(its, IsN2))
        + CeilDiv(SumSeq(SelectSeq(its, IsN3)), C)

L_K(its, C, K) == ClassifyLoop(its, C, K, 1, 0, 0, 0, 0)

k_values(its, C) == {0} \cup {its[p] : p \in {q \in 1..Len(its) : its[q] <= C \div 2}}

RECURSIVE MaxOver(_, _, _, _)
MaxOver(its, C, Ks, acc) ==
  IF Ks = {} THEN acc
  ELSE LET K == CHOOSE k \in Ks : TRUE
       IN  MaxOver(its, C, Ks \ {K}, Max2(acc, L_K(its, C, K)))

\* inner while of _compute_L2_small_items; k and the result are 0-based indices
RECURSIVE ScanRatio(_, _, _, _)
ScanRatio(its, C, k, ratio) ==
  IF k >= Len(its) THEN k
  ELSE IF C \div its[k + 1] > ratio THEN k
  ELSE ScanRatio(its, C, k + 1, ratio)

\* one iteration of the outer while loop, entered with i < n: the loop
\* variables afterwards, and whether the iteration left the loop by a break
SmallItemsIter(its, C, i, ratio, max_lb) ==
  LET n == Len(its)
      next_i == ScanRatio(its, C, i, ratio)
      m == Max2(max_lb, CeilDiv(next_i, ratio))
      ir == C \div its[next_i + 1]
  IN  IF next_i >= n THEN [exit |-> TRUE, i |-> i, ratio |-> ratio, max_lb |-> m]
      ELSE IF CeilDiv(n, ir) <= m THEN [exit |-> TRUE, i |-> i, ratio |-> ratio, max_lb |-> m]
      ELSE [exit |-> FALSE, i |-> next_i, ratio |-> ir, max_lb |-> m]

RECURSIVE SmallItemsLoop(_, _, _, _, _)
SmallItemsLoop(its, C, i, ratio, max_lb) ==
  IF i >= Len(its) THEN max_lb
  ELSE LET st == SmallItemsIter(its, C, i, ratio, max_lb) IN
       IF st.exit THEN st.max_lb
       ELSE SmallItemsLoop(its, C, st.i, st.ratio, st.max_lb)

\* variant: all n items counted against the ratio of the largest item
compute_L2_small_items_firstRatio(its, C) ==
  IF Len(its) = 0 THEN 0
  ELSE CeilDiv(Len(its), C \div its[1])

compute_L2_small_items(its, C) ==
  IF Len(its) = 0 THEN 0
  ELSE SmallItemsLoop(its, C, 1, C \div its[1], 0)

\* variant: the small-item case is not dispatched
compute_L2_thresholdOnly(its, C) ==
  IF Len(its) = 0 THEN 0
  ELSE MaxOver(its, C, k_values(its, C), CeilDiv(SumSeq(its), C))

compute_L2(its, C) ==
  IF Len(its) = 0 THEN 0
  ELSE LET l1 == CeilDiv(SumSeq(its), C) IN
       IF its[1] <= C \div 2
         THEN Max2(l1, compute_L2_small_items(its, C))
         ELSE MaxOver(its, C, k_values(its, C), l1)

\* ---- greedy heuristics ---------------------------------------------------
\* variant: the fit test is off by one
RECURSIVE FirstFitBin_offByOne(_, _, _)
FirstFitBin_offByOne(residual, w, j) ==
  IF j > Len(residual) THEN -1
  ELSE IF residual[j] >= w - 1 THEN j - 1
  ELSE FirstFitBin_offByOne(residual, w, j + 1)

\* first open bin (0-based number) whose residual is >= w, or -1
RECURSIVE FirstFitBin(_, _, _)
FirstFitBin(residual, w, j) ==
  IF j > Len(residual) THEN -1
  ELSE IF residual[j] >= w THEN j - 1
  ELSE FirstFitBin(residual, w, j + 1)

\* variant: a bin of equal residual replaces the earlier one
RECURSIVE BestFitBin_lastTie(_, _, _, _, _)
BestFitBin_lastTie(residual, w, j, best_bin, best_residual) ==
  IF j > Len(residual) THEN best_bin
  ELSE IF residual[j] >= w /\ residual[j] <= best_residual
         THEN BestFitBin_lastTie(residual, w, j + 1, j - 1, residual[j])
         ELSE BestFitBin_lastTie(residual, w, j + 1, best_bin, best_residual)

\* inner loop of best_fit_decreasing: strict improvement keeps the earliest bin
RECURSIVE BestFitBin(_, _, _, _, _)
BestFitBin(residual, w, j, best_bin, best_residual) ==
  IF j > Len(residual) THEN best_bin
  ELSE IF residual[j] >= w /\ residual[j] < best_residual
         THEN BestFitBin(residual, w, j + 1, j - 1, residual[j])
         ELSE BestFitBin(residual, w, j + 1, best_bin, best_residual)

RECURSIVE GreedyLoop(_, _, _, _, _, _)
GreedyLoop(its, C, best, p, residual, assignment) ==
  IF p > Len(its) THEN [bins |-> Len(residual), assignment |-> assignment]
  ELSE LET w == its[p]
           b == IF best THEN BestFitBin(residual, w, 1, -1, C + 1)
                        ELSE FirstFitBin(residual, w, 1)
       IN  IF b >= 0
             THEN GreedyLoop(its, C, best, p + 1,
                             [residual EXCEPT ![b + 1] = @ - w],
                             [assignment EXCEPT ![p] = b])
             ELSE GreedyLoop(its, C, best, p + 1,
                             Append(residual, C - w),
                             [assignment EXCEPT ![p] = Len(residual)])

first_fit_decreasing(its, C) ==
  GreedyLoop(its, C, FALSE, 1, <<>>, [p \in 1..Len(its) |-> Unassigned])

best_fit_decreasing(its, C) ==
  GreedyLoop(its, C, TRUE, 1, <<>>, [p \in 1..Len(its) |-> Unassigned])

\* ---- reconstruction helpers --------------------------------------------
\* variant: the claimed marks are not consulted
RECURSIVE FirstUnusedMatch_ignoreUsed(_, _, _, _)
FirstUnusedMatch_ignoreUsed(its, global_used, weight, k) ==
  IF k > Len(its) THEN 0
  ELSE IF its[k] = weight THEN k
  ELSE FirstUnusedMatch_ignoreUsed(its, global_used, weight, k + 1)

\* lowest position k with global_used[k] false and its[k] = weight, or 0
RECURSIVE FirstUnusedMatch(_, _, _, _)
FirstUnusedMatch(its, global_used, weight, k) ==
  IF k > Len(its) THEN 0
  ELSE IF ~global_used[k] /\ its[k] = weight THEN k
  ELSE FirstUnusedMatch(its, global_used, weight, k + 1)

\* one weight slot claims the first unclaimed position of equal weight
ClaimSlot(its, st, weight, bin) ==
  LET k == FirstUnusedMatch(its, st.global_used, weight, 1) IN
  IF k = 0 THEN st
  ELSE [final_assignment |-> [st.final_assignment EXCEPT ![k] = bin],
        global_used |-> [st.global_used EXCEPT ![k] = TRUE]]

RECURSIVE AssignBinContent(_, _, _, _, _)
AssignBinContent(its, st, b_content, p, bin) ==
  IF p > Len(b_content) THEN st
  ELSE AssignBinContent(its, ClaimSlot(its, st, b_content[p], bin), b_content, p + 1, bin)

\* "Assign fixed bins": fixed bin j (1-based position) gets number j - 1
RECURSIVE AssignFixedBins(_, _, _, _)
AssignFixedBins(its, st, fbins, j) ==
  IF j > Len(fbins) THEN st
  ELSE AssignFixedBins(its, AssignBinContent(its, st, fbins[j], 1, j - 1), fbins, j + 1)

\* "Assign B&B result bins"
RECURSIVE AssignSearchBins(_, _, _, _, _, _)
AssignSearchBins(its, st, rem_assignment, rem_weights, p, current_bin_idx) ==
  IF p > Len(rem_assignment) THEN st
  ELSE AssignSearchBins(its,
         ClaimSlot(its, st, rem_weights[p], current_bin_idx + rem_assignment[p]),
         rem_assignment, rem_weights, p + 1, current_bin_idx)

ReconstructFull(its, fbins, rem_assignment, rem_weights) ==
  LET st0 == [final_assignment |-> [k \in 1..Len(its) |-> Unassigned],
              global_used |-> [k \in 1..Len(its) |-> FALSE]]
      st1 == AssignFixedBins(its, st0, fbins, 1)
  IN  AssignSearchBins(its, st1, rem_assignment, rem_weights, 1, Len(fbins)).final_assignment

\* ---- input space -----------------------------------------------------------
\* non-increasing weight lists of a given length with weights in 1..maxw
RECURSIVE SortedLists(_, _)
SortedLists(len, maxw) ==
  IF len = 0 THEN {<<>>}
  ELSE UNION {{<<w>> \o s : s \in SortedLists(len - 1, w)} : w \in 1..maxw}

\* weights up to capacity + 1: the constructor accepts oversized items
Instances(C) == UNION {SortedLists(len, C + 1) : len \in 0..MaxItems}

\* the scenarios of the specification (section 8) with explicit weights
ScenarioInstances ==
  { [capacity |-> 2,  items |-> <<1, 1, 1, 1>>],
    [capacity |-> 10, items |-> <<5, 5, 5>>],
    [capacity |-> 10, items |-> <<6, 5, 4, 3, 2, 1>>],
    [capacity |-> 10, items |-> <<9, 8, 7, 6, 5, 4, 3, 2, 1>>] }

\* instances on which both heuristics miss the optimum, so that the search
\* improves on them: alone, behind a forced singleton, behind a perfect pair,
\* and behind an oversized item; two instances with two candidate targets
\* (LB + 2 = UB): on the first the second target succeeds, on the second both
\* targets fail; and one whose only target fails behind a forced singleton
HardInstances ==
  { [capacity |-> 7,  items |-> <<3, 3, 2, 2, 2, 2>>],
    [capacity |-> 7,  items |-> <<7, 4, 4, 2, 2, 2>>],
    [capacity |-> 7,  items |-> <<7, 3, 3, 2, 2, 2, 2>>],
    [capacity |-> 7,  items |-> <<4, 3, 3, 3, 2, 2, 2, 2>>],
    [capacity |-> 10, items |-> <<6, 5, 3, 2, 2, 2>>],
    [capacity |-> 7,  items |-> <<8, 3, 3, 2, 2, 2, 2>>],
    [capacity |-> 23, items |-> <<9, 9, 9, 9, 9, 9, 9, 9, 9, 9, 6, 6, 6, 6>>],
    [capacity |-> 23, items |-> <<12, 8, 8, 8, 8, 8, 8, 8, 8, 8, 8>>] }

\* an instance whose only target (5 bins) fails after more than CheckInterval
\* expanded nodes, so that the clock is also read deep inside the recursion,
\* and one whose only target (5 bins) succeeds after CheckInterval + 1 nodes,
\* so that the clock is read during the descent into the last bin
DeepInstances ==
  { [capacity |-> 50,
     items |-> <<24, 24, 23, 23, 22, 22, 21, 20, 14, 12, 11, 10, 10>>],
    [capacity |-> 53,
     items |-> <<21, 20, 20, 18, 18, 17, 17, 16, 16, 16, 15, 14, 14, 13, 13, 7, 1>>] }

\* every small instance, and the named larger ones
AllInstances ==
  UNION {{[capacity |-> C, items |-> its] : its \in Instances(C)} : C \in 1..MaxCap}
    \cup ScenarioInstances \cup HardInstances \cup DeepInstances

TimeLimits == {0, DefaultTimeLimit}

TickStep == DefaultTimeLimit + 1

Infinity == 999999

\* ---- state ----------------------------------------------------------------
VARIABLES
  capacity,            \* self.capacity
  items,               \* self.items, sorted descending by the constructor
  time_limit,          \* self.time_limit
  now,                 \* the wall clock that time.time() reads
  start_time,          \* self.start_time
  pc,                  \* position of solve()
  current_items,       \* run_reduction: working weight list
  fixed_bins,          \* run_reduction: fixed bins (weight lists)
  lb, ub,              \* solve: bounds
  ffd, bfd,            \* solve: (ub_ffd, sol_ffd) and (ub_bfd, sol_bfd)
  used, assignment,    \* solve: the buffers handed to the search
  target,              \* solve: loop variable of the target loop
  stack,               \* frames of _bin_oriented_search, innermost last
  ret,                 \* return value travelling to the caller frame
  nodes_explored,      \* self.nodes_explored
  backtracks,          \* self.backtracks
  best_bins,           \* self.best_bins
  best_solution,       \* self.best_solution (<<>> stands for None)
  found_optimal,       \* solve: found_optimal
  final_rem_assignment,\* solve: final_rem_assignment
  result,              \* the tuple solve returned (<<>> before it returns)
  timedOut,            \* history: a time check of this call observed expiry
  searched,            \* history: targets whose search was started, in order
  succeeded,           \* history: targets whose search returned True
  checks,              \* history: (target, elapsed) of every clock reading of this call
  timeoutTargets,      \* history: targets at which a time check observed expiry
  target_began,        \* history: clock when the current target's search was called
  calls,               \* history: completed calls of solve on this object
  history,             \* history: outcome of every completed call
  h_pc,                \* heuristics: which run is under way, or how it ended
  h_items,             \* heuristics: items, the argument of the run
  h_k,                 \* heuristics: number of loop iterations completed
  h_bins,              \* heuristics: bins, the local list of the run
  seg_tree,            \* ff.py: seg_tree.tree
  seg_bins,            \* ff.py: seg_tree.bins, as positions in bins
  avl_root             \* bf.py: avl_tree.root (<<>> stands for None)

instVars == <<capacity, items, time_limit>>
redVars == <<current_items, fixed_bins>>
boundVars == <<lb, ub, ffd, bfd>>
bufVars == <<used, assignment>>
searchVars == <<target, stack, ret, nodes_explored, backtracks>>
outVars == <<best_bins, best_solution, found_optimal, final_rem_assignment, result>>
histVars == <<timedOut, searched, succeeded, checks, timeoutTargets, target_began,
             calls, history>>
mtpVars == <<instVars, now, start_time, pc, redVars, boundVars, bufVars, searchVars,
            outVars, histVars>>
heurVars == <<h_pc, h_items, h_k, h_bins, seg_tree, seg_bins, avl_root>>

vars == <<capacity, items, time_limit, now, start_time, pc, current_items,
          fixed_bins, lb, ub, ffd, bfd, used, assignment, target, stack, ret,
          nodes_explored, backtracks, best_bins, best_solution, found_optimal,
          final_rem_assignment, result, timedOut, searched, succeeded, checks,
          timeoutTargets, target_began, calls, history, h_pc, h_items, h_k,
          h_bins, seg_tree, seg_bins, avl_root>>

n == Len(items)

\* no MTPBinPacking object is in use
MtpIdle ==
  /\ capacity = 1 /\ items = <<>> /\ time_limit = DefaultTimeLimit
  /\ now = 0 /\ start_time = 0 /\ pc = "unused"
  /\ current_items = <<>> /\ fixed_bins = <<>>
  /\ lb = 0 /\ ub = 0
  /\ ffd = [bins |-> 0, assignment |-> <<>>]
  /\ bfd = [bins |-> 0, assignment |-> <<>>]
  /\ used = <<>> /\ assignment = <<>>
  /\ target = 0 /\ stack = <<>> /\ ret = "none"
  /\ nodes_explored = 0 /\ backtracks = 0
  /\ best_bins = Infinity /\ best_solution = <<>>
  /\ found_optimal = FALSE /\ final_rem_assignment = <<>> /\ result = <<>>
  /\ timedOut = FALSE /\ searched = <<>> /\ succeeded = {}
  /\ checks = <<>> /\ timeoutTargets = {} /\ target_began = 0
  /\ calls = 0 /\ history = {}

\* no run of the stand-alone heuristics is under way
HeurIdle ==
  /\ h_pc = "idle"
  /\ h_items = <<>>
  /\ h_k = 0
  /\ h_bins = <<>>
  /\ seg_tree = <<>>
  /\ seg_bins = <<>>
  /\ avl_root = <<>>

num_fixed == Len(fixed_bins)

\* state right after MTPBinPacking(items, capacity), time_limit possibly
\* overridden by the caller
Init ==
  /\ \E inst \in AllInstances : capacity = inst.capacity /\ items = inst.items
  /\ time_limit \in TimeLimits
  /\ now = 0
  /\ start_time = 0
  /\ pc = "idle"
  /\ current_items = <<>>
  /\ fixed_bins = <<>>
  /\ lb = 0 /\ ub = 0
  /\ ffd = [bins |-> 0, assignment |-> <<>>]
  /\ bfd = [bins |-> 0, assignment |-> <<>>]
  /\ used = <<>> /\ assignment = <<>>
  /\ target = 0
  /\ stack = <<>>
  /\ ret = "none"
  /\ nodes_explored = 0
  /\ backtracks = 0
  /\ best_bins = Infinity
  /\ best_solution = <<>>
  /\ found_optimal = FALSE
  /\ final_rem_assignment = <<>>
  /\ result = <<>>
  /\ timedOut = FALSE
  /\ searched = <<>>
  /\ succeeded = {}
  /\ checks = <<>>
  /\ timeoutTargets = {}
  /\ target_began = 0
  /\ calls = 0
  /\ history = {}
  /\ HeurIdle

\* ---- environment: wall-clock time passes ---------------------------------
\* time advances are modelled only while a later reading of the clock can
\* observe them: before the search, and in a search whose next expanded node
\* reads the clock
Tick ==
  /\ pc \in {"reduce", "bounds", "target", "search"}
  /\ pc = "search" => nodes_explored % CheckInterval = 0
  /\ now + TickStep <= MaxClock
  /\ now' = now + TickStep
  /\ UNCHANGED <<heurVars, instVars, start_time, pc, redVars, boundVars, bufVars,
                 searchVars, outVars, histVars>>

\* ---- solve(): entry ---------------------------------------------------------
\* lines 268-276: read the clock, copy the weights for the reduction
SolveStart ==
  /\ pc = "idle"
  /\ start_time' = now
  /\ current_items' = items
  /\ fixed_bins' = <<>>
  /\ pc' = "reduce"
  /\ UNCHANGED <<heurVars, instVars, now, boundVars, bufVars, searchVars, outVars, histVars>>

\* ---- run_reduction: one round of the while loop ---------------------------
\* variant: any item that fits beside the largest counts as its partner
RECURSIVE PerfectMatch_anyFit(_, _, _)
PerfectMatch_anyFit(cur, C, k) ==
  IF k > Len(cur) THEN 0
  ELSE IF cur[1] + cur[k] <= C THEN k
  ELSE PerfectMatch_anyFit(cur, C, k + 1)

\* 1-based position of the first k >= 2 with largest + current_items[k] = C, or 0
RECURSIVE PerfectMatch(_, _, _)
PerfectMatch(cur, C, k) ==
  IF k > Len(cur) THEN 0
  ELSE IF cur[1] + cur[k] = C THEN k
  ELSE PerfectMatch(cur, C, k + 1)

\* current_items after the sort at the top of the round
sorted_items == SortDesc(current_items)

best_match_idx == PerfectMatch(sorted_items, capacity, 2)

\* variant: pop(0) before pop(best_match_idx), so the second pop is shifted
ReducePerfectPair_popFrontFirst ==
  /\ pc = "reduce"
  /\ current_items # <<>>
  /\ best_match_idx # 0
  /\ fixed_bins' = Append(fixed_bins, <<sorted_items[1], sorted_items[best_match_idx]>>)
  /\ current_items' = IF best_match_idx <= Len(sorted_items) - 1
                         THEN RemoveAt(Tail(sorted_items), best_match_idx)
                         ELSE Tail(sorted_items)
  /\ UNCHANGED <<heurVars, instVars, now, start_time, pc, boundVars, bufVars, searchVars,
                 outVars, histVars>>

ReducePerfectPair ==
  /\ pc = "reduce"
  /\ current_items # <<>>
  /\ best_match_idx # 0
  /\ fixed_bins' = Append(fixed_bins, <<sorted_items[1], sorted_items[best_match_idx]>>)
  /\ current_items' = Tail(RemoveAt(sorted_items, best_match_idx))
  /\ UNCHANGED <<heurVars, instVars, now, start_time, pc, boundVars, bufVars, searchVars,
                 outVars, histVars>>

\* variant: the largest weight is compared with the second largest
ReduceSingleton_vsSecondLargest ==
  /\ pc = "reduce"
  /\ current_items # <<>>
  /\ best_match_idx = 0
  /\ sorted_items[1] + sorted_items[Min2(2, Len(sorted_items))] > capacity
  /\ fixed_bins' = Append(fixed_bins, <<sorted_items[1]>>)
  /\ current_items' = Tail(sorted_items)
  /\ UNCHANGED <<heurVars, instVars, now, start_time, pc, boundVars, bufVars, searchVars,
                 outVars, histVars>>

ReduceSingleton ==
  /\ pc = "reduce"
  /\ current_items # <<>>
  /\ best_match_idx = 0
  /\ sorted_items[1] + sorted_items[Len(sorted_items)] > capacity
  /\ fixed_bins' = Append(fixed_bins, <<sorted_items[1]>>)
  /\ current_items' = Tail(sorted_items)
  /\ UNCHANGED <<heurVars, instVars, now, start_time, pc, boundVars, bufVars, searchVars,
                 outVars, histVars>>

\* both breaks of the loop, and the return of run_reduction
ReduceStop ==
  /\ pc = "reduce"
  /\ \/ current_items = <<>>
     \/ /\ current_items # <<>>
        /\ best_match_idx = 0
        /\ sorted_items[1] + sorted_items[Len(sorted_items)] <= capacity
  /\ current_items' = sorted_items
  /\ pc' = "bounds"
  /\ UNCHANGED <<heurVars, instVars, now, start_time, fixed_bins, boundVars, bufVars,
                 searchVars, outVars, histVars>>

\* ---- solve(): bounds (lines 286-322) ---------------------------------------
\* remaining_weights is the list run_reduction returned
remaining_weights == current_items

\* variant: the bound is taken over all the weights, not the remaining ones
lb_of_fullSet == num_fixed + compute_L2(items, capacity)

lb_of == num_fixed + compute_L2(remaining_weights, capacity)

ub_of == Min2(first_fit_decreasing(items, capacity).bins,
              best_fit_decreasing(items, capacity).bins)

\* sol_ffd if ub_ffd <= ub_bfd else sol_bfd
heuristic_solution(f, b) == IF f.bins <= b.bins THEN f.assignment ELSE b.assignment

\* lb == ub: return the heuristic solution as proven optimal
BoundsProvenOptimal ==
  /\ pc = "bounds"
  /\ lb_of = ub_of
  /\ lb' = lb_of /\ ub' = ub_of
  /\ ffd' = first_fit_decreasing(items, capacity)
  /\ bfd' = best_fit_decreasing(items, capacity)
  /\ best_bins' = ub_of
  /\ best_solution' = heuristic_solution(ffd', bfd')
  /\ result' = <<ub_of, best_solution'>>
  /\ pc' = "done"
  /\ calls' = calls + 1
  /\ history' = history \cup {[result |-> result', abandoned |-> timedOut]}
  /\ UNCHANGED <<heurVars, instVars, now, start_time, redVars, bufVars, searchVars,
                 found_optimal, final_rem_assignment, timedOut, searched, succeeded,
                 checks, timeoutTargets, target_began>>

start_target == Max2(0, lb - num_fixed)

end_target == ub - num_fixed

\* lb # ub: allocate the buffers and enter the target loop
BoundsStartSearch ==
  /\ pc = "bounds"
  /\ lb_of # ub_of
  /\ lb' = lb_of /\ ub' = ub_of
  /\ ffd' = first_fit_decreasing(items, capacity)
  /\ bfd' = best_fit_decreasing(items, capacity)
  /\ best_bins' = ub_of
  /\ used' = [p \in 1..Len(remaining_weights) |-> FALSE]
  /\ assignment' = [p \in 1..Len(remaining_weights) |-> Unassigned]
  /\ target' = Max2(0, lb_of - num_fixed)
  /\ found_optimal' = FALSE
  /\ final_rem_assignment' = <<>>
  /\ pc' = "target"
  /\ UNCHANGED <<heurVars, instVars, now, start_time, redVars, stack, ret, nodes_explored,
                 backtracks, best_solution, result, histVars>>

\* ---- solve(): the target loop (lines 324-338) --------------------------------
\* a call of _bin_oriented_search: its arguments, its locals, where it stands,
\* and (history) the buffers as they were when it was entered
Frame(bin_idx, residual, items_packed, start_index, u, a) ==
  [bin_idx |-> bin_idx, residual |-> residual, items_packed |-> items_packed,
   start_index |-> start_index, at |-> "entry", i |-> start_index,
   must_fill |-> FALSE, item_placed |-> FALSE,
   entry_used |-> u, entry_assignment |-> a]

\* one more target in range: reset the counters and call the search
\* variant: the range includes its end, range(start_target, end_target + 1)
TargetBegin_inclusive ==
  /\ pc = "target"
  /\ target <= end_target
  /\ backtracks' = 0
  /\ nodes_explored' = 0
  /\ stack' = <<Frame(0, capacity, 0, 0, used, assignment)>>
  /\ ret' = "none"
  /\ searched' = Append(searched, target)
  /\ target_began' = now
  /\ pc' = "search"
  /\ UNCHANGED <<heurVars, instVars, now, start_time, redVars, boundVars, bufVars, target,
                 outVars, timedOut, succeeded, checks, timeoutTargets, calls,
                 history>>

\* variant: the clock is restarted for every target
TargetBegin_restartClock ==
  /\ pc = "target"
  /\ target < end_target
  /\ backtracks' = 0
  /\ nodes_explored' = 0
  /\ stack' = <<Frame(0, capacity, 0, 0, used, assignment)>>
  /\ ret' = "none"
  /\ searched' = Append(searched, target)
  /\ target_began' = now
  /\ start_time' = now
  /\ pc' = "search"
  /\ UNCHANGED <<heurVars, instVars, now, redVars, boundVars, bufVars, target,
                 outVars, timedOut, succeeded, checks, timeoutTargets, calls,
                 history>>

TargetBegin ==
  /\ pc = "target"
  /\ target < end_target
  /\ backtracks' = 0
  /\ nodes_explored' = 0
  /\ stack' = <<Frame(0, capacity, 0, 0, used, assignment)>>
  /\ ret' = "none"
  /\ searched' = Append(searched, target)
  /\ target_began' = now
  /\ pc' = "search"
  /\ UNCHANGED <<heurVars, instVars, now, start_time, redVars, boundVars, bufVars, target,
                 outVars, timedOut, succeeded, checks, timeoutTargets, calls,
                 history>>

\* the range is exhausted without a break
TargetsExhausted ==
  /\ pc = "target"
  /\ target >= end_target
  /\ pc' = "reconstruct"
  /\ UNCHANGED <<heurVars, instVars, now, start_time, redVars, boundVars, bufVars,
                 searchVars, outVars, histVars>>

\* the top-level call returned True: lines 332-336
SearchSucceeded ==
  /\ pc = "search"
  /\ stack = <<>>
  /\ ret = "true"
  /\ best_bins' = target + num_fixed
  /\ final_rem_assignment' = assignment
  /\ found_optimal' = TRUE
  /\ succeeded' = succeeded \cup {target}
  /\ ret' = "none"
  /\ pc' = "reconstruct"
  /\ UNCHANGED <<heurVars, instVars, now, start_time, redVars, boundVars, bufVars, target,
                 stack, nodes_explored, backtracks, best_solution, result,
                 timedOut, searched, checks, timeoutTargets, target_began, calls,
                 history>>

\* the top-level call returned False: line 338, on to the next target
SearchFailed ==
  /\ pc = "search"
  /\ stack = <<>>
  /\ ret = "false"
  /\ target' = target + 1
  /\ ret' = "none"
  /\ pc' = "target"
  /\ UNCHANGED <<heurVars, instVars, now, start_time, redVars, boundVars, bufVars, stack,
                 nodes_explored, backtracks, outVars, histVars>>

\* ---- _bin_oriented_search: one action per step of the recursion ----------
Top == stack[Len(stack)]

Pop == SubSeq(stack, 1, Len(stack) - 1)

SetTop(f) == [stack EXCEPT ![Len(stack)] = f]

\* remaining_list: weights of the items not marked used
RECURSIVE UnusedWeights(_, _, _)
UnusedWeights(its, u, p) ==
  IF p > Len(its) THEN <<>>
  ELSE IF ~u[p] THEN <<its[p]>> \o UnusedWeights(its, u, p + 1)
  ELSE UnusedWeights(its, u, p + 1)

\* variant: no equal-weight skip
RECURSIVE NextCandidate_noSymmetry(_, _, _, _, _)
NextCandidate_noSymmetry(its, u, residual, start_index, i) ==
  IF i >= Len(its) THEN -1
  ELSE IF ~u[i + 1] /\ its[i + 1] <= residual THEN i
  ELSE NextCandidate_noSymmetry(its, u, residual, start_index, i + 1)

\* the item the for loop places next when it stands at 0-based index i, or -1
RECURSIVE NextCandidate(_, _, _, _, _)
NextCandidate(its, u, residual, start_index, i) ==
  IF i >= Len(its) THEN -1
  ELSE IF /\ ~u[i + 1]
          /\ its[i + 1] <= residual
          /\ ~(i > start_index /\ its[i + 1] = its[i] /\ ~u[i])
         THEN i
  ELSE NextCandidate(its, u, residual, start_index, i + 1)

Entering == pc = "search" /\ stack # <<>> /\ ret = "none" /\ Top.at = "entry"

SolutionFoundCheck == Top.items_packed = Len(remaining_weights)

LimitCheck == Top.bin_idx >= target

\* variant: the cut also fires when the bound equals the target
PruneCheck_ge ==
  /\ Top.residual = capacity
  /\ Top.bin_idx + compute_L2(UnusedWeights(remaining_weights, used, 1), capacity) >= target

PruneCheck ==
  /\ Top.residual = capacity
  /\ Top.bin_idx + compute_L2(UnusedWeights(remaining_weights, used, 1), capacity) > target

\* variant: the clock is first read at the end of an interval
TimeCheckDue_endOfInterval == nodes_explored % CheckInterval = CheckInterval - 1

TimeCheckDue == nodes_explored % CheckInterval = 0

\* variant: the limit is measured from the call of the target's search
TimeExceeded_sinceTarget == now - target_began > time_limit

TimeExceeded == now - start_time > time_limit

\* what a time check saw: the elapsed time it computed, whether it found the
\* limit exceeded, and the time since the target's search was called
ClockReading(expired) ==
  [target |-> target, elapsed |-> now - start_time, expired |-> expired,
   since_target |-> now - target_began]

\* variant: the dominance rule is switched off
MustFill_never(residual) == FALSE

\* must_fill = (residual == self.capacity)
MustFill(residual) == residual = capacity

\* variant: the used mark of a withdrawn item stays set
Unmark_keep(u, i) == u

\* "Backtrack": used[i] = False
Unmark(u, i) == [u EXCEPT ![i + 1] = FALSE]

\* variant: the bin number of a withdrawn item stays in the assignment
Unassign_keep(a, i) == a

\* "Backtrack": assignment[i] = -1
Unassign(a, i) == [a EXCEPT ![i + 1] = Unassigned]

\* 1. items_packed == n: return True
SearchSolutionFound ==
  /\ Entering
  /\ SolutionFoundCheck
  /\ stack' = Pop
  /\ ret' = "true"
  /\ UNCHANGED <<heurVars, instVars, now, start_time, pc, redVars, boundVars, bufVars,
                 target, nodes_explored, backtracks, outVars, histVars>>

\* 2. bin_idx >= target: return False;
\* 3. fresh bin and bin_idx + L2(unused) > target: count a backtrack, return False
SearchCutoff ==
  /\ Entering
  /\ ~SolutionFoundCheck
  /\ (LimitCheck \/ PruneCheck)
  /\ backtracks' = IF LimitCheck THEN backtracks ELSE backtracks + 1
  /\ stack' = Pop
  /\ ret' = "false"
  /\ UNCHANGED <<heurVars, instVars, now, start_time, pc, redVars, boundVars, bufVars,
                 target, nodes_explored, outVars, histVars>>

\* variant: the node is counted before the clock is compared
SearchTimeout_countsNode ==
  /\ Entering
  /\ ~SolutionFoundCheck
  /\ ~LimitCheck
  /\ ~PruneCheck
  /\ TimeCheckDue
  /\ TimeExceeded
  /\ nodes_explored' = nodes_explored + 1
  /\ stack' = Pop
  /\ ret' = "false"
  /\ timedOut' = TRUE
  /\ timeoutTargets' = timeoutTargets \cup {target}
  /\ checks' = Append(checks, ClockReading(TRUE))
  /\ UNCHANGED <<heurVars, instVars, now, start_time, pc, redVars, boundVars, bufVars,
                 target, backtracks, outVars, searched,
                 succeeded, target_began, calls, history>>

\* variant: a check that finds the limit exceeded restarts the clock
SearchTimeout_restartsClock ==
  /\ Entering
  /\ ~SolutionFoundCheck
  /\ ~LimitCheck
  /\ ~PruneCheck
  /\ TimeCheckDue
  /\ TimeExceeded
  /\ start_time' = now
  /\ stack' = Pop
  /\ ret' = "false"
  /\ timedOut' = TRUE
  /\ timeoutTargets' = timeoutTargets \cup {target}
  /\ checks' = Append(checks, ClockReading(TRUE))
  /\ UNCHANGED <<heurVars, instVars, now, pc, redVars, boundVars, bufVars,
                 target, nodes_explored, backtracks, outVars, searched,
                 succeeded, target_began, calls, history>>

\* 4. the periodic time check finds the limit exceeded: return False
SearchTimeout ==
  /\ Entering
  /\ ~SolutionFoundCheck
  /\ ~LimitCheck
  /\ ~PruneCheck
  /\ TimeCheckDue
  /\ TimeExceeded
  /\ stack' = Pop
  /\ ret' = "false"
  /\ timedOut' = TRUE
  /\ timeoutTargets' = timeoutTargets \cup {target}
  /\ checks' = Append(checks, ClockReading(TRUE))
  /\ UNCHANGED <<heurVars, instVars, now, start_time, pc, redVars, boundVars, bufVars,
                 target, nodes_explored, backtracks, outVars, searched,
                 succeeded, target_began, calls, history>>

\* 4./5. the node is expanded: count it and enter the for loop
SearchExpand ==
  /\ Entering
  /\ ~SolutionFoundCheck
  /\ ~LimitCheck
  /\ ~PruneCheck
  /\ ~(TimeCheckDue /\ TimeExceeded)
  /\ nodes_explored' = nodes_explored + 1
  /\ stack' = SetTop([Top EXCEPT !.at = "loop", !.i = Top.start_index,
                                 !.item_placed = FALSE,
                                 !.must_fill = MustFill(Top.residual)])
  /\ checks' = IF TimeCheckDue THEN Append(checks, ClockReading(FALSE)) ELSE checks
  /\ UNCHANGED <<heurVars, instVars, now, start_time, pc, redVars, boundVars, bufVars,
                 target, ret, backtracks, outVars, timedOut, searched, succeeded,
                 timeoutTargets, target_began, calls, history>>

Looping == pc = "search" /\ stack # <<>> /\ ret = "none" /\ Top.at = "loop"

candidate == NextCandidate(remaining_weights, used, Top.residual, Top.start_index, Top.i)

\* variant: the recursive call is handed the caller's residual unchanged
SearchPlace_sameResidual ==
  /\ Looping
  /\ candidate # -1
  /\ used' = [used EXCEPT ![candidate + 1] = TRUE]
  /\ assignment' = [assignment EXCEPT ![candidate + 1] = Top.bin_idx]
  /\ stack' = Append(SetTop([Top EXCEPT !.at = "placed", !.i = candidate]),
                     Frame(Top.bin_idx, Top.residual,
                           Top.items_packed + 1, candidate + 1, used', assignment'))
  /\ UNCHANGED <<heurVars, instVars, now, start_time, pc, redVars, boundVars, target, ret,
                 nodes_explored, backtracks, outVars, histVars>>

\* "Apply move" and the recursive call that stays in the same bin
SearchPlace ==
  /\ Looping
  /\ candidate # -1
  /\ used' = [used EXCEPT ![candidate + 1] = TRUE]
  /\ assignment' = [assignment EXCEPT ![candidate + 1] = Top.bin_idx]
  /\ stack' = Append(SetTop([Top EXCEPT !.at = "placed", !.i = candidate]),
                     Frame(Top.bin_idx, Top.residual - remaining_weights[candidate + 1],
                           Top.items_packed + 1, candidate + 1, used', assignment'))
  /\ UNCHANGED <<heurVars, instVars, now, start_time, pc, redVars, boundVars, target, ret,
                 nodes_explored, backtracks, outVars, histVars>>

\* the for loop is over: 6. close the bin and call for bin_idx + 1, unless
\* must_fill, in which case the final return False is reached
SearchLoopEnd ==
  /\ Looping
  /\ candidate = -1
  /\ IF ~Top.must_fill
       THEN /\ stack' = Append(SetTop([Top EXCEPT !.at = "closing",
                                                  !.i = Len(remaining_weights)]),
                               Frame(Top.bin_idx + 1, capacity, Top.items_packed, 0,
                                     used, assignment))
            /\ ret' = ret
       ELSE /\ stack' = Pop
            /\ ret' = "false"
  /\ UNCHANGED <<heurVars, instVars, now, start_time, pc, redVars, boundVars, bufVars,
                 target, nodes_explored, backtracks, outVars, histVars>>

Returned == pc = "search" /\ stack # <<>> /\ ret # "none"

\* a recursive call returned True: return True
SearchPropagate ==
  /\ Returned
  /\ ret = "true"
  /\ stack' = Pop
  /\ UNCHANGED <<heurVars, instVars, now, start_time, pc, redVars, boundVars, bufVars,
                 target, ret, nodes_explored, backtracks, outVars, histVars>>

\* variant: the loop index is not advanced after an undone move
SearchBacktrack_sameIndex ==
  /\ Returned
  /\ ret = "false"
  /\ Top.at = "placed"
  /\ used' = Unmark(used, Top.i)
  /\ assignment' = Unassign(assignment, Top.i)
  /\ IF Top.must_fill
       THEN /\ stack' = Pop
            /\ ret' = "false"
       ELSE /\ stack' = SetTop([Top EXCEPT !.at = "loop", !.item_placed = TRUE])
            /\ ret' = "none"
  /\ UNCHANGED <<heurVars, instVars, now, start_time, pc, redVars, boundVars, target,
                 nodes_explored, backtracks, outVars, histVars>>

\* the call for a placed item returned False: undo the move; with must_fill
\* return False, otherwise go on with the next index
SearchBacktrack ==
  /\ Returned
  /\ ret = "false"
  /\ Top.at = "placed"
  /\ used' = Unmark(used, Top.i)
  /\ assignment' = Unassign(assignment, Top.i)
  /\ IF Top.must_fill
       THEN /\ stack' = Pop
            /\ ret' = "false"
       ELSE /\ stack' = SetTop([Top EXCEPT !.at = "loop", !.i = Top.i + 1,
                                           !.item_placed = TRUE])
            /\ ret' = "none"
  /\ UNCHANGED <<heurVars, instVars, now, start_time, pc, redVars, boundVars, target,
                 nodes_explored, backtracks, outVars, histVars>>

\* the call for the next bin returned False: final return False
SearchCloseFailed ==
  /\ Returned
  /\ ret = "false"
  /\ Top.at = "closing"
  /\ stack' = Pop
  /\ UNCHANGED <<heurVars, instVars, now, start_time, pc, redVars, boundVars, bufVars,
                 target, ret, nodes_explored, backtracks, outVars, histVars>>

\* ---- solve(): reconstruction and return (lines 340-377) ----------------------
\* found_optimal: merge the fixed bins and the search assignment
Reconstruct ==
  /\ pc = "reconstruct"
  /\ found_optimal
  /\ result' = <<best_bins, ReconstructFull(items, fixed_bins, final_rem_assignment,
                                            remaining_weights)>>
  /\ pc' = "done"
  /\ calls' = calls + 1
  /\ history' = history \cup {[result |-> result', abandoned |-> timedOut]}
  /\ UNCHANGED <<heurVars, instVars, now, start_time, redVars, boundVars, bufVars,
                 searchVars, best_bins, best_solution, found_optimal,
                 final_rem_assignment, timedOut, searched, succeeded, checks,
                 timeoutTargets, target_began>>

\* variant: the fallback falls through to the merged assignment
Fallback_merged ==
  /\ pc = "reconstruct"
  /\ ~found_optimal
  /\ result' = <<ub, ReconstructFull(items, fixed_bins, <<>>, remaining_weights)>>
  /\ pc' = "done"
  /\ calls' = calls + 1
  /\ history' = history \cup {[result |-> result', abandoned |-> timedOut]}
  /\ UNCHANGED <<heurVars, instVars, now, start_time, redVars, boundVars, bufVars,
                 searchVars, best_bins, best_solution, found_optimal,
                 final_rem_assignment, timedOut, searched, succeeded, checks,
                 timeoutTargets, target_began>>

\* not found_optimal: return the heuristic solution
Fallback ==
  /\ pc = "reconstruct"
  /\ ~found_optimal
  /\ result' = <<ub, heuristic_solution(ffd, bfd)>>
  /\ pc' = "done"
  /\ calls' = calls + 1
  /\ history' = history \cup {[result |-> result', abandoned |-> timedOut]}
  /\ UNCHANGED <<heurVars, instVars, now, start_time, redVars, boundVars, bufVars,
                 searchVars, best_bins, best_solution, found_optimal,
                 final_rem_assignment, timedOut, searched, succeeded, checks,
                 timeoutTargets, target_began>>

Next ==
  \/ Tick
  \/ SolveStart
  \/ ReducePerfectPair
  \/ ReduceSingleton
  \/ ReduceStop
  \/ BoundsProvenOptimal
  \/ BoundsStartSearch
  \/ TargetBegin
  \/ TargetsExhausted
  \/ SearchSucceeded
  \/ SearchFailed
  \/ SearchSolutionFound
  \/ SearchCutoff
  \/ SearchTimeout
  \/ SearchExpand
  \/ SearchPlace
  \/ SearchLoopEnd
  \/ SearchPropagate
  \/ SearchBacktrack
  \/ SearchCloseFailed
  \/ Reconstruct
  \/ Fallback

Spec == Init /\ [][Next]_vars

\* ---- solve() called again on the same object -------------------------------
\* the fields of self persist, the locals of the call are fresh
SolveAgain ==
  /\ pc = "done"
  /\ calls < MaxCalls
  /\ start_time' = now
  /\ current_items' = items
  /\ fixed_bins' = <<>>
  /\ pc' = "reduce"
  /\ lb' = 0 /\ ub' = 0
  /\ ffd' = [bins |-> 0, assignment |-> <<>>]
  /\ bfd' = [bins |-> 0, assignment |-> <<>>]
  /\ used' = <<>> /\ assignment' = <<>>
  /\ target' = 0
  /\ found_optimal' = FALSE
  /\ final_rem_assignment' = <<>>
  /\ result' = <<>>
  /\ timedOut' = FALSE
  /\ searched' = <<>>
  /\ succeeded' = {}
  /\ checks' = <<>>
  /\ timeoutTargets' = {}
  /\ UNCHANGED <<heurVars, instVars, now, stack, ret, nodes_explored, backtracks,
                 best_bins, best_solution, target_began, calls, history>>

NextRepeat == Next \/ SolveAgain

SpecRepeat == Init /\ [][NextRepeat]_vars

\* ---- the search on its own: any weight list, any target, no expiry -----------
SearchInstances ==
  {inst \in AllInstances :
     \A p \in 1..Len(inst.items) : inst.items[p] <= inst.capacity}

InitSearch ==
  /\ \E inst \in SearchInstances : capacity = inst.capacity /\ items = inst.items
  /\ current_items = items
  /\ target \in 0..(MaxItems + 1)
  /\ time_limit = DefaultTimeLimit
  /\ now = 0
  /\ start_time = 0
  /\ pc = "search"
  /\ fixed_bins = <<>>
  /\ lb = 0 /\ ub = 0
  /\ ffd = [bins |-> 0, assignment |-> <<>>]
  /\ bfd = [bins |-> 0, assignment |-> <<>>]
  /\ used = [p \in 1..Len(items) |-> FALSE]
  /\ assignment = [p \in 1..Len(items) |-> Unassigned]
  /\ stack = <<Frame(0, capacity, 0, 0, [p \in 1..Len(items) |-> FALSE],
                     [p \in 1..Len(items) |-> Unassigned])>>
  /\ ret = "none"
  /\ nodes_explored = 0
  /\ backtracks = 0
  /\ best_bins = Infinity
  /\ best_solution = <<>>
  /\ found_optimal = FALSE
  /\ final_rem_assignment = <<>>
  /\ result = <<>>
  /\ timedOut = FALSE
  /\ searched = <<target>>
  /\ succeeded = {}
  /\ checks = <<>>
  /\ timeoutTargets = {}
  /\ target_began = 0
  /\ calls = 0
  /\ history = {}
  /\ HeurIdle

NextSearch ==
  \/ SearchSolutionFound
  \/ SearchCutoff
  \/ SearchExpand
  \/ SearchPlace
  \/ SearchLoopEnd
  \/ SearchPropagate
  \/ SearchBacktrack
  \/ SearchCloseFailed

SpecSearch == InitSearch /\ [][NextSearch]_vars

\* ---- heuristics/firstfit/ff.py and heuristics/bestfit/bf.py ------------------
\* sizes are counted in units of CAPACITY / HeurCap, which the floating-point
\* arithmetic of the code represents exactly when HeurCap is a power of two
HeurCap == 4

HeurLen == 6

HeurSizes == 1..HeurCap

HeurInputs == UNION {[1..m -> HeurSizes] : m \in 0..HeurLen}

\* Bin(): remaining = CAPACITY, items = []
Bin == [remaining |-> HeurCap, items |-> <<>>]

\* Bin.try_add: the bin afterwards; it is unchanged when the item does not fit
try_add(b, item) ==
  IF b.remaining >= item
    THEN [remaining |-> b.remaining - item, items |-> Append(b.items, item)]
    ELSE b

\* run_ff, lines 42-46: position of the first bin whose try_add succeeds, 0 if none
RECURSIVE FirstFitting(_, _, _)
FirstFitting(bins, item, b) ==
  IF b > Len(bins) THEN 0
  ELSE IF bins[b].remaining >= item THEN b
  ELSE FirstFitting(bins, item, b + 1)

\* run_ff, one iteration of the loop over items
run_ff_item(bins, item) ==
  LET b == FirstFitting(bins, item, 1) IN
  IF b # 0 THEN [bins EXCEPT ![b] = try_add(@, item)]
  ELSE Append(bins, try_add(Bin, item))

RECURSIVE run_ff_loop(_, _, _)
run_ff_loop(its, k, bins) ==
  IF k > Len(its) THEN bins
  ELSE run_ff_loop(its, k + 1, run_ff_item(bins, its[k]))

run_ff(its) == LET bins == run_ff_loop(its, 1, <<>>) IN <<Len(bins), bins>>

\* SegmentTree.__init__: a list of 4 * size zeros
SegmentTree(size) == [i \in 1..(4 * size) |-> 0]

\* a list index the list has (node is never negative)
InRange(tree, node) == node + 1 <= Len(tree)

\* SegmentTree._build; raised is the IndexError of a list access out of range
RECURSIVE build_rec(_, _, _, _, _, _)
build_rec(tree, sbins, bins, node, start, end) ==
  IF start = end
    THEN IF InRange(tree, node)
           THEN [tree |-> [tree EXCEPT ![node + 1] = bins[sbins[start + 1] + 1].remaining],
                 raised |-> FALSE]
           ELSE [tree |-> tree, raised |-> TRUE]
    ELSE LET mid == (start + end) \div 2
             left_child == 2 * node + 1
             right_child == 2 * node + 2
             l == build_rec(tree, sbins, bins, left_child, start, mid)
             r == build_rec(l.tree, sbins, bins, right_child, mid + 1, end)
         IN  IF l.raised THEN l
             ELSE IF r.raised THEN r
             ELSE IF ~InRange(r.tree, right_child) THEN [tree |-> r.tree, raised |-> TRUE]
             ELSE [tree |-> [r.tree EXCEPT ![node + 1] =
                               Max2(r.tree[left_child + 1], r.tree[right_child + 1])],
                   raised |-> FALSE]

\* SegmentTree.build
build(tree, sbins, bins) ==
  IF sbins # <<>> THEN build_rec(tree, sbins, bins, 0, 0, Len(sbins) - 1)
  ELSE [tree |-> tree, raised |-> FALSE]

\* SegmentTree._query_first_fit
RECURSIVE query_first_fit_rec(_, _, _, _, _)
query_first_fit_rec(tree, node, start, end, item_size) ==
  IF start = end
    THEN IF ~InRange(tree, node) THEN [idx |-> -1, raised |-> TRUE]
         ELSE [idx |-> IF tree[node + 1] >= item_size THEN start ELSE -1,
               raised |-> FALSE]
    ELSE LET mid == (start + end) \div 2
             left_child == 2 * node + 1
             right_child == 2 * node + 2
         IN  IF ~InRange(tree, left_child) THEN [idx |-> -1, raised |-> TRUE]
             ELSE IF tree[left_child + 1] >= item_size
               THEN query_first_fit_rec(tree, left_child, start, mid, item_size)
               ELSE query_first_fit_rec(tree, right_child, mid + 1, end, item_size)

\* SegmentTree.query_first_fit
query_first_fit(tree, sbins, item_size) ==
  IF sbins = <<>> THEN [idx |-> -1, raised |-> FALSE]
  ELSE IF ~InRange(tree, 0) THEN [idx |-> -1, raised |-> TRUE]
  ELSE IF tree[1] < item_size THEN [idx |-> -1, raised |-> FALSE]
  ELSE query_first_fit_rec(tree, 0, 0, Len(sbins) - 1, item_size)

\* SegmentTree._update
RECURSIVE update_rec(_, _, _, _, _, _)
update_rec(tree, node, start, end, idx, new_val) ==
  IF start = end
    THEN IF InRange(tree, node)
           THEN [tree |-> [tree EXCEPT ![node + 1] = new_val], raised |-> FALSE]
           ELSE [tree |-> tree, raised |-> TRUE]
    ELSE LET mid == (start + end) \div 2
             left_child == 2 * node + 1
             right_child == 2 * node + 2
             d == IF idx <= mid
                    THEN update_rec(tree, left_child, start, mid, idx, new_val)
                    ELSE update_rec(tree, right_child, mid + 1, end, idx, new_val)
         IN  IF d.raised THEN d
             ELSE IF ~InRange(d.tree, right_child) THEN [tree |-> d.tree, raised |-> TRUE]
             ELSE [tree |-> [d.tree EXCEPT ![node + 1] =
                               Max2(d.tree[left_child + 1], d.tree[right_child + 1])],
                   raised |-> FALSE]

\* SegmentTree.update
update(tree, sbins, bin_index, new_capacity) ==
  update_rec(tree, 0, 0, Len(sbins) - 1, bin_index, new_capacity)

\* a call run_ff_segment_tree(items, flag), before its loop
InitFF ==
  /\ h_pc = "ff_segment_tree"
  /\ h_items \in HeurInputs
  /\ h_k = 0
  /\ h_bins = <<>>
  /\ seg_tree = SegmentTree(0)
  /\ seg_bins = <<>>
  /\ avl_root = <<>>
  /\ MtpIdle

\* run_ff_segment_tree, one iteration of the loop over items (lines 177-198)
run_ff_segment_tree_item ==
  /\ h_pc = "ff_segment_tree"
  /\ h_k < Len(h_items)
  /\ LET item == h_items[h_k + 1]
         q == query_first_fit(seg_tree, seg_bins, item)
         bin_idx == q.idx
         placed == [h_bins EXCEPT ![bin_idx + 1] = try_add(@, item)]
         u == update(seg_tree, seg_bins, bin_idx, placed[bin_idx + 1].remaining)
         opened == Append(h_bins, try_add(Bin, item))
         added == Append(seg_bins, Len(h_bins))
         b == build(seg_tree, added, opened)
     IN  IF q.raised
           THEN /\ h_pc' = "raised"
                /\ UNCHANGED <<h_k, h_bins, seg_tree, seg_bins>>
         ELSE IF bin_idx # -1
           THEN /\ h_bins' = placed
                /\ seg_tree' = u.tree
                /\ h_pc' = IF u.raised THEN "raised" ELSE h_pc
                /\ h_k' = IF u.raised THEN h_k ELSE h_k + 1
                /\ UNCHANGED seg_bins
         ELSE   /\ h_bins' = opened
                /\ seg_bins' = added
                /\ seg_tree' = b.tree
                /\ h_pc' = IF b.raised THEN "raised" ELSE h_pc
                /\ h_k' = IF b.raised THEN h_k ELSE h_k + 1
  /\ UNCHANGED <<h_items, avl_root, mtpVars>>

\* run_ff_segment_tree, line 205: return len(bins), bins
run_ff_segment_tree_return ==
  /\ h_pc = "ff_segment_tree"
  /\ h_k = Len(h_items)
  /\ h_pc' = "returned"
  /\ UNCHANGED <<h_items, h_k, h_bins, seg_tree, seg_bins, avl_root, mtpVars>>

NextFF == run_ff_segment_tree_item \/ run_ff_segment_tree_return

SpecFF == InitFF /\ [][NextFF]_vars

\* run_bf, lines 34-39: position of the fitting bin of least remaining
\* capacity, the earliest among equals; 0 if none
RECURSIVE BestFitting(_, _, _, _, _)
BestFitting(bins, item, i, best_idx, best_after) ==
  IF i > Len(bins) THEN best_idx
  ELSE IF bins[i].remaining >= item
          /\ (best_idx = 0 \/ bins[i].remaining - item < best_after)
         THEN BestFitting(bins, item, i + 1, i, bins[i].remaining - item)
         ELSE BestFitting(bins, item, i + 1, best_idx, best_after)

\* run_bf, one iteration of the loop over items
run_bf_item(bins, item) ==
  LET best_idx == BestFitting(bins, item, 1, 0, 0) IN
  IF best_idx = 0 THEN Append(bins, try_add(Bin, item))
  ELSE [bins EXCEPT ![best_idx] = try_add(@, item)]

RECURSIVE run_bf_loop(_, _, _)
run_bf_loop(its, k, bins) ==
  IF k > Len(its) THEN bins
  ELSE run_bf_loop(its, k + 1, run_bf_item(bins, its[k]))

run_bf(its) == LET bins == run_bf_loop(its, 1, <<>>) IN <<Len(bins), bins>>

\* a tree is <<>> (None) or <<node>>; node.bin is the position of the bin in
\* bins, which identifies the object
AVLNode(cap, bin_obj) ==
  [capacity |-> cap, bin |-> bin_obj, height |-> 1, left |-> <<>>, right |-> <<>>]

height(node) == IF node = <<>> THEN 0 ELSE node[1].height

balance_factor(node) ==
  IF node = <<>> THEN 0 ELSE height(node[1].left) - height(node[1].right)

update_height(node) ==
  IF node = <<>> THEN node
  ELSE <<[node[1] EXCEPT !.height = 1 + Max2(height(node[1].left), height(node[1].right))]>>

rotate_right(y) ==
  LET x == y[1].left
      T2 == x[1].right
      y2 == update_height(<<[y[1] EXCEPT !.left = T2]>>)
  IN  update_height(<<[x[1] EXCEPT !.right = y2]>>)

rotate_left(x) ==
  LET y == x[1].right
      T2 == y[1].left
      x2 == update_height(<<[x[1] EXCEPT !.right = T2]>>)
  IN  update_height(<<[y[1] EXCEPT !.left = x2]>>)

RECURSIVE insert(_, _, _)
insert(node, cap, bin_obj) ==
  IF node = <<>> THEN <<AVLNode(cap, bin_obj)>>
  ELSE LET grown == IF cap < node[1].capacity
                      THEN <<[node[1] EXCEPT !.left = insert(@, cap, bin_obj)]>>
                      ELSE <<[node[1] EXCEPT !.right = insert(@, cap, bin_obj)]>>
           nd == update_height(grown)
           balance == balance_factor(nd)
       IN  IF balance > 1 /\ cap < nd[1].left[1].capacity
             THEN rotate_right(nd)
           ELSE IF balance < -1 /\ cap >= nd[1].right[1].capacity
             THEN rotate_left(nd)
           ELSE IF balance > 1 /\ cap >= nd[1].left[1].capacity
             THEN rotate_right(<<[nd[1] EXCEPT !.left = rotate_left(@)]>>)
           ELSE IF balance < -1 /\ cap < nd[1].right[1].capacity
             THEN rotate_left(<<[nd[1] EXCEPT !.right = rotate_right(@)]>>)
           ELSE nd

\* best is <<>> (None) or <<cap, bin>>
RECURSIVE find_best_fit(_, _, _)
find_best_fit(node, item_size, best) ==
  IF node = <<>> THEN best
  ELSE IF node[1].capacity >= item_size
    THEN find_best_fit(node[1].left, item_size,
                       IF best = <<>> \/ node[1].capacity < best[1]
                         THEN <<node[1].capacity, node[1].bin>>
                         ELSE best)
    ELSE find_best_fit(node[1].right, item_size, best)

RECURSIVE min_value_node(_)
min_value_node(node) ==
  IF node[1].left # <<>> THEN min_value_node(node[1].left) ELSE node[1]

RECURSIVE delete(_, _, _)
delete(node, cap, bin_obj) ==
  IF node = <<>> THEN node
  ELSE IF cap = node[1].capacity /\ node[1].bin = bin_obj /\ node[1].left = <<>>
    THEN node[1].right
  ELSE IF cap = node[1].capacity /\ node[1].bin = bin_obj /\ node[1].right = <<>>
    THEN node[1].left
  ELSE LET temp == min_value_node(node[1].right)
           cut == IF cap < node[1].capacity
                    THEN <<[node[1] EXCEPT !.left = delete(@, cap, bin_obj)]>>
                  ELSE IF cap > node[1].capacity
                    THEN <<[node[1] EXCEPT !.right = delete(@, cap, bin_obj)]>>
                  ELSE IF node[1].bin = bin_obj
                    THEN <<[node[1] EXCEPT
                              !.capacity = temp.capacity,
                              !.bin = temp.bin,
                              !.right = delete(@, temp.capacity, temp.bin)]>>
                  ELSE <<[node[1] EXCEPT !.right = delete(@, cap, bin_obj)]>>
           nd == update_height(cut)
           balance == balance_factor(nd)
       IN  IF balance > 1 /\ balance_factor(nd[1].left) >= 0
             THEN rotate_right(nd)
           ELSE IF balance > 1 /\ balance_factor(nd[1].left) < 0
             THEN rotate_right(<<[nd[1] EXCEPT !.left = rotate_left(@)]>>)
           ELSE IF balance < -1 /\ balance_factor(nd[1].right) <= 0
             THEN rotate_left(nd)
           ELSE IF balance < -1 /\ balance_factor(nd[1].right) > 0
             THEN rotate_left(<<[nd[1] EXCEPT !.right = rotate_right(@)]>>)
           ELSE nd

\* a call run_bf_avl(items, flag), before its loop; the items are drawn as
\* the loop reaches them
InitBF ==
  /\ h_pc = "bf_avl"
  /\ h_items = <<>>
  /\ h_k = 0
  /\ h_bins = <<>>
  /\ seg_tree = <<>>
  /\ seg_bins = <<>>
  /\ avl_root = <<>>
  /\ MtpIdle

\* run_bf_avl, one iteration of the loop over items (lines 276-303)
run_bf_avl_item ==
  /\ h_pc = "bf_avl"
  /\ h_k < HeurLen
  /\ \E item \in HeurSizes :
       LET found  == find_best_fit(avl_root, item, <<>>)
           old_capacity == found[1]
           best_bin == found[2]
           removed == delete(avl_root, old_capacity, best_bin)
           placed == [h_bins EXCEPT ![best_bin] = try_add(@, item)]
           opened == Append(h_bins, try_add(Bin, item))
       IN  /\ h_items' = Append(h_items, item)
           /\ h_k' = h_k + 1
           /\ IF found # <<>>
                THEN /\ h_bins' = placed
                     /\ avl_root' = insert(removed, placed[best_bin].remaining, best_bin)
                ELSE /\ h_bins' = opened
                     /\ avl_root' = insert(avl_root, opened[Len(opened)].remaining,
                                           Len(opened))
  /\ UNCHANGED <<h_pc, seg_tree, seg_bins, mtpVars>>

\* run_bf_avl, line 310: return len(bins), bins
run_bf_avl_return ==
  /\ h_pc = "bf_avl"
  /\ h_pc' = "returned"
  /\ UNCHANGED <<h_items, h_k, h_bins, seg_tree, seg_bins, avl_root, mtpVars>>

NextBF == run_bf_avl_item \/ run_bf_avl_return

SpecBF == InitBF /\ [][NextBF]_vars

\* ---- reference notions used by the properties -----------------------------
\* every weight of the instance is in 1..capacity
Valid == \A p \in 1..Len(items) : items[p] >= 1 /\ items[p] <= capacity

\* the weights ws[p..] can be added to bins with the given loads; a weight
\* opens at most the first of the still empty bins
RECURSIVE PackInto(_, _, _, _)
PackInto(ws, C, p, loads) ==
  IF p > Len(ws) THEN TRUE
  ELSE \E j \in 1..Len(loads) :
         /\ (j = 1 \/ loads[j - 1] > 0)
         /\ loads[j] + ws[p] <= C
         /\ PackInto(ws, C, p + 1, [loads EXCEPT ![j] = @ + ws[p]])

\* a packing of all the weights into at most k bins of capacity C exists
Packable(ws, C, k) == PackInto(ws, C, 1, [j \in 1..k |-> 0])

RECURSIVE LeastPackable(_, _, _)
LeastPackable(ws, C, k) ==
  IF Packable(ws, C, k) THEN k ELSE LeastPackable(ws, C, k + 1)

\* the true optimum of a valid weight list
OptimalBins(ws, C) == LeastPackable(ws, C, 0)

\* total weight assigned to bin b by an assignment a over the weights ws
RECURSIVE BinLoad(_, _, _, _)
BinLoad(ws, a, b, p) ==
  IF p > Len(ws) THEN 0
  ELSE (IF a[p] = b THEN ws[p] ELSE 0) + BinLoad(ws, a, b, p + 1)

\* (k, a) is a feasible packing of ws
FeasiblePacking(ws, C, k, a) ==
  /\ Len(a) = Len(ws)
  /\ \A p \in 1..Len(ws) : a[p] \in 0..(k - 1)
  /\ \A b \in 0..(k - 1) : /\ \E p \in 1..Len(ws) : a[p] = b
                           /\ BinLoad(ws, a, b, 1) <= C

\* number of occurrences of w in a list
RECURSIVE CountOf(_, _)
CountOf(s, w) ==
  IF s = <<>> THEN 0 ELSE (IF Head(s) = w THEN 1 ELSE 0) + CountOf(Tail(s), w)

RECURSIVE Flatten(_)
Flatten(ss) == IF ss = <<>> THEN <<>> ELSE Head(ss) \o Flatten(Tail(ss))

\* ---- properties -------------------------------------------------------------

\* C1: for a valid instance, when no time check observed expiry, the bin
\* count solve returns is the true minimum number of capacity-C bins.
C1_SolveReturnsOptimum ==
  (pc = "done" /\ Valid /\ ~timedOut) => result[1] = OptimalBins(items, capacity)

\* the search found a packing below the heuristic upper bound
C1_Witness ==
  /\ pc = "done" /\ Valid /\ ~timedOut
  /\ found_optimal
  /\ result[1] < ub

\* C2: started at (bin 0, residual C, nothing packed, start_index 0) on a
\* non-increasing valid weight list, without expiry, the top-level call returns
\* True exactly when a packing into at most target bins exists.
C2_SearchIffPackable ==
  (pc = "search" /\ stack = <<>> /\ ret # "none" /\ ~timedOut)
    => ((ret = "true") <=> Packable(remaining_weights, capacity, target))

\* the search succeeded for a target first-fit-decreasing does not reach
C2_Witness ==
  /\ pc = "search" /\ stack = <<>> /\ ret = "true"
  /\ target < first_fit_decreasing(remaining_weights, capacity).bins
  /\ nodes_explored > Len(remaining_weights)

\* C3: for a valid instance and any timing of the expiry, the returned pair
\* (k, assignment) is a feasible packing: every position has a bin in 0..k-1,
\* every bin 0..k-1 is non-empty and no bin is loaded beyond C.
C3_ResultFeasible ==
  (pc = "done" /\ Valid) => FeasiblePacking(items, capacity, result[1], result[2])

\* a result returned after a time check abandoned a target, with fixed bins
C3_Witness ==
  /\ pc = "done" /\ Valid /\ timedOut
  /\ num_fixed > 0
  /\ remaining_weights # <<>>

\* C4: for a valid non-increasing list, L1 <= L2 <= optimum <= min(FFD, BFD);
\* the threshold formula and the small-item routine each stay at or below the
\* optimum.
C4_BoundChain ==
  (pc = "idle" /\ Valid) =>
    LET opt == OptimalBins(items, capacity) IN
    /\ compute_L1(items, capacity) <= compute_L2(items, capacity)
    /\ compute_L2(items, capacity) <= opt
    /\ opt <= Min2(first_fit_decreasing(items, capacity).bins,
                   best_fit_decreasing(items, capacity).bins)
    /\ MaxOver(items, capacity, k_values(items, capacity), 0) <= opt
    /\ (items # <<>> /\ items[1] <= capacity \div 2)
         => compute_L2_small_items(items, capacity) <= opt

\* only small items, and the small-item routine beats L1
C4_Witness ==
  /\ pc = "idle" /\ Valid
  /\ items # <<>>
  /\ items[1] <= capacity \div 2
  /\ compute_L1(items, capacity) < compute_L2(items, capacity)

\* C5: the reduction is safe: optimum of the instance = number of fixed bins
\* + optimum of the remaining weights.
C5_ReductionSafe ==
  (pc = "bounds" /\ Valid) =>
    OptimalBins(items, capacity) = num_fixed + OptimalBins(remaining_weights, capacity)

\* both rules fired and something is left
C5_Witness ==
  /\ pc = "bounds" /\ Valid
  /\ \E j \in 1..Len(fixed_bins) : Len(fixed_bins[j]) = 1
  /\ \E j \in 1..Len(fixed_bins) : Len(fixed_bins[j]) = 2
  /\ remaining_weights # <<>>

ReductionKeepsTotals ==
  /\ \A j \in 1..Len(fixed_bins) : SumSeq(fixed_bins[j]) <= capacity
  /\ \A w \in {items[p] : p \in 1..Len(items)}
            \cup {current_items[p] : p \in 1..Len(current_items)}
            \cup {Flatten(fixed_bins)[p] : p \in 1..Len(Flatten(fixed_bins))} :
       CountOf(Flatten(fixed_bins) \o current_items, w) = CountOf(items, w)

\* C6: after every round of run_reduction (and on its return) every fixed bin
\* sums to at most C and fixed bins plus remaining weights are the input
\* multiset; the input list is not changed.
C6_ReductionInvariant ==
  /\ []((pc \in {"reduce", "bounds"} /\ Valid) => ReductionKeepsTotals)
  /\ [][pc = "reduce" => items' = items]_vars

\* two rounds fixed a bin each and weights remain
C6_Witness ==
  /\ pc = "reduce" /\ Valid
  /\ Len(fixed_bins) >= 2
  /\ Len(current_items) >= 2

\* C7: an instance with a weight above C is rejected before any reduction,
\* bound, heuristic or search work; solve never returns a result for it.
C7_InvalidRejected ==
  (~Valid) => (fixed_bins = <<>> /\ pc \in {"idle", "reduce"} /\ result = <<>>)

\* C8: a result returned after a target was abandoned for time differs from
\* every result returned by a call that abandoned nothing.
C8_FallbackDistinguishable ==
  \A h1, h2 \in history : (h1.abandoned /\ ~h2.abandoned) => h1.result # h2.result

\* C9 as stated: with time limit 0 and LB < UB every searched target ends by
\* timeout and solve returns the heuristic upper bound.
C9_ZeroLimitAlwaysTimesOut ==
  (pc = "done" /\ time_limit = 0 /\ lb < ub) =>
    /\ result[1] = ub
    /\ \A p \in 1..Len(searched) : searched[p] \in timeoutTargets

\* C9 amended: the same, provided every clock reading of a time check is
\* later than start_time.
C9_ZeroLimitTimesOutOnceClockMoved ==
  (pc = "done" /\ time_limit = 0 /\ lb < ub
     /\ \A c \in 1..Len(checks) : checks[c].elapsed > 0) =>
    /\ result = <<ub, heuristic_solution(ffd, bfd)>>
    /\ searched # <<>>
    /\ \A p \in 1..Len(searched) : searched[p] \in timeoutTargets

\* the timeout kept solve from a packing better than the heuristic one
C9_Witness ==
  /\ pc = "done" /\ time_limit = 0 /\ lb < ub /\ Valid
  /\ checks # <<>>
  /\ \A c \in 1..Len(checks) : checks[c].elapsed > 0
  /\ OptimalBins(items, capacity) < ub

\* C10: searches are started in strictly increasing target order from
\* max(0, LB - fixedBins), only for targets below UB - fixedBins, and none is
\* started after a search succeeded.
C10_TargetOrder ==
  /\ \A p \in 1..Len(searched) :
       /\ searched[p] < ub - num_fixed
       /\ p = 1 => searched[p] = Max2(0, lb - num_fixed)
       /\ \A q \in 1..(p - 1) : searched[q] < searched[p]
  /\ succeeded # {} =>
       /\ searched # <<>>
       /\ succeeded = {searched[Len(searched)]}
       /\ pc \in {"reconstruct", "done"}

\* a first target failed, the second succeeded, and solve returned
C10_Witness ==
  /\ pc = "done"
  /\ Len(searched) >= 2
  /\ succeeded # {}

\* number of positions of ws that a sends to bin b and that weigh w
BinCount(ws, a, b, w) == Cardinality({p \in 1..Len(ws) : a[p] = b /\ ws[p] = w})

WeightsOf(ws) == {ws[p] : p \in 1..Len(ws)}

\* C11: after a successful search the returned assignment claims every one of
\* the n positions once: fixed bin j becomes bin j, search bin r becomes bin
\* fixedBins + r, each final bin holds the weights of the bin it came from,
\* and among positions of equal weight the lower index goes to the earlier slot.
C11_ReconstructionBijective ==
  (pc = "done" /\ found_optimal) =>
    LET a == result[2] IN
    /\ Len(a) = n
    /\ \A p \in 1..n : a[p] \in 0..(num_fixed + target - 1)
    /\ \A j \in 1..num_fixed : \A w \in WeightsOf(items) :
         BinCount(items, a, j - 1, w) = CountOf(fixed_bins[j], w)
    /\ \A r \in 0..(target - 1) : \A w \in WeightsOf(items) :
         BinCount(items, a, num_fixed + r, w)
           = BinCount(remaining_weights, final_rem_assignment, r, w)
    /\ \A p, q \in 1..n :
         (p < q /\ items[p] = items[q]) =>
           /\ ~(a[p] >= num_fixed /\ a[q] < num_fixed)
           /\ (a[q] < num_fixed) => a[p] <= a[q]

\* a weight occurs both in a fixed bin and in a bin of the successful search
C11_Witness ==
  /\ pc = "done" /\ found_optimal
  /\ num_fixed > 0
  /\ \E p, q \in 1..n :
       /\ items[p] = items[q]
       /\ result[2][p] < num_fixed
       /\ result[2][q] >= num_fixed

\* C12: for a valid instance the lower bound (fixed bins + L2 of the remaining
\* weights) never exceeds the heuristic upper bound min(FFD, BFD).
C12_BoundsConsistent ==
  /\ (pc = "bounds" /\ Valid) => lb_of <= ub_of
  /\ (pc \in {"target", "search", "reconstruct", "done"} /\ Valid) => lb <= ub

\* bins were fixed and the bound stays strictly below the heuristic count
C12_Witness ==
  /\ pc = "target" /\ Valid
  /\ num_fixed > 0
  /\ lb = num_fixed + compute_L2(remaining_weights, capacity)
  /\ lb < ub

\* first-fit-decreasing on ties, else the heuristic with fewer bins
SmallerHeuristic ==
  LET f == first_fit_decreasing(items, capacity)
      b == best_fit_decreasing(items, capacity)
  IN  IF f.bins <= b.bins THEN f ELSE b

\* C13: when fixed bins + L2(remaining) equals min(FFD, BFD), solve returns
\* that count with the heuristic assignment, no search is started, and for a
\* valid instance the count is the optimum.
C13_EqualBoundsShortcut ==
  /\ (pc = "done" /\ lb = ub) =>
       /\ result = <<SmallerHeuristic.bins, SmallerHeuristic.assignment>>
       /\ searched = <<>>
       /\ ~found_optimal
       /\ Valid => result[1] = OptimalBins(items, capacity)
  /\ (pc \in {"target", "search", "reconstruct"}) => lb # ub

\* the shortcut was taken after the reduction fixed bins and left weights
C13_Witness ==
  /\ pc = "done" /\ Valid
  /\ lb = ub
  /\ num_fixed > 0
  /\ remaining_weights # <<>>

\* C14: when the target loop ends without a successful search, solve returns
\* the heuristic upper bound with exactly the assignment of the heuristic with
\* fewer bins (FFD on ties), untouched by the fixed-bin merge.
C14_FallbackIsHeuristic ==
  (pc = "done" /\ lb # ub /\ ~found_optimal) =>
    /\ result = <<SmallerHeuristic.bins, SmallerHeuristic.assignment>>
    /\ result[1] = ub

\* every target failed without a timeout, behind fixed bins
C14_Witness ==
  /\ pc = "done" /\ Valid
  /\ ~found_optimal /\ ~timedOut
  /\ searched # <<>>
  /\ num_fixed > 0

\* C15 as stated: a time check abandons the target exactly when the time
\* since that target's search was called exceeds the limit.
C15_LimitPerTarget ==
  \A c \in 1..Len(checks) :
    checks[c].expired <=> (checks[c].since_target > time_limit)

\* between the entry of solve and its return start_time is not assigned
StartTimeKept ==
  (pc \in {"reduce", "bounds", "target", "search", "reconstruct"})
    => (start_time' = start_time)

\* C15 amended: the limit is measured from the entry of solve, on one clock
\* for all targets: start_time is read once and never reset during the call,
\* and a time check abandons the target exactly when the time since start_time
\* exceeds the limit.
C15_LimitSinceSolveBegan ==
  /\ [](\A c \in 1..Len(checks) :
          checks[c].expired <=> (checks[c].elapsed > time_limit))
  /\ [][StartTimeKept]_vars

\* a target was abandoned at its first node by time spent before it was called
C15_Witness ==
  /\ pc = "search"
  /\ time_limit = DefaultTimeLimit
  /\ checks # <<>>
  /\ checks[Len(checks)].expired
  /\ checks[Len(checks)].since_target = 0

\* the search of the current target has seen a time check expire
AfterTimeout == pc = "search" /\ target \in timeoutTargets

NoPlacementAfterTimeout ==
  AfterTimeout => (\A p \in 1..Len(used) : used'[p] => used[p])

\* C16 as stated: after a time check observed the limit exceeded no further
\* item is tentatively placed for that target, and the top-level call does not
\* return True.
C16_TimeoutStopsPlacing ==
  /\ [][NoPlacementAfterTimeout]_vars
  /\ [](AfterTimeout => ret # "true")

NoExpansionAfterTimeout ==
  AfterTimeout => (nodes_explored' = nodes_explored)

\* the step in which a time check observes expiry
TimeoutReturnsFalse ==
  (timeoutTargets' # timeoutTargets /\ pc = "search") =>
    /\ stack' = Pop
    /\ ret' = "false"
    /\ used' = used /\ assignment' = assignment
    /\ nodes_explored' = nodes_explored

\* C16 amended: the call whose time check observes expiry returns False at
\* once; afterwards no node of that target is expanded and no call returns
\* True, while callers may still place and withdraw their remaining candidates.
C16_TimeoutUnwinds ==
  /\ [][NoExpansionAfterTimeout /\ TimeoutReturnsFalse]_vars
  /\ [](AfterTimeout => ret # "true")

\* after the expiry a caller placed its next candidate and called again
C16_Witness ==
  /\ AfterTimeout
  /\ Len(stack) >= 2
  /\ Top.at = "entry" /\ ret = "none"
  /\ stack[Len(stack) - 1].at = "placed"

\* no mark is set and every cell holds the sentinel
FreshBuffers ==
  /\ Len(used) = Len(remaining_weights)
  /\ Len(assignment) = Len(remaining_weights)
  /\ \A p \in 1..Len(used) : ~used[p]
  /\ \A p \in 1..Len(assignment) : assignment[p] = Unassigned

\* the top-level call of a target stands at its entry
AtRootEntry ==
  pc = "search" /\ Len(stack) = 1 /\ Top.at = "entry" /\ ret = "none"

\* C17: whenever the search for a candidate target is about to begin or has
\* just been called, every used mark is false and every assignment cell is -1.
C17_FreshBufferPerTarget ==
  (pc = "target" \/ AtRootEntry) => FreshBuffers

\* a second target is called after the first failed without a timeout
C17_Witness ==
  /\ AtRootEntry
  /\ Len(searched) >= 2
  /\ ~timedOut

\* a call returns False in this step
ReturnsFalse ==
  pc = "search" /\ stack # <<>> /\ Len(stack') = Len(stack) - 1 /\ ret' = "false"

FalseReturnRestores ==
  ReturnsFalse => (used' = Top.entry_used /\ assignment' = Top.entry_assignment)

WeightsKept == (pc = "search") => (current_items' = current_items)

\* C18: when a call of _bin_oriented_search returns False, used and assignment
\* are cell for cell what they were when that call was entered, and the weight
\* list is never modified by the search.
C18_FalseReturnRestoresBuffers == [][FalseReturnRestores /\ WeightsKept]_vars

\* a call that had placed items returned False to a caller holding an item
C18_Witness ==
  /\ pc = "search" /\ ret = "false"
  /\ Len(stack) >= 2
  /\ Top.at = "placed"
  /\ backtracks > 0

\* a call places an item and calls itself for the same bin in this step
PlaceStep ==
  pc = "search" /\ stack # <<>> /\ Len(stack') = Len(stack) + 1 /\ used' # used

\* a call closes its bin and calls itself for the next bin in this step
OpenStep ==
  pc = "search" /\ stack # <<>> /\ Len(stack') = Len(stack) + 1 /\ used' = used

\* the first occupant of an empty bin is the lowest-index unused item that
\* fits, and it is the only one the call ever places
MustFillPlacement ==
  (PlaceStep /\ Top.residual = capacity) =>
    /\ ~Top.item_placed
    /\ \A p \in 1..Len(used) :
         (used'[p] /\ ~used[p]) =>
           /\ remaining_weights[p] <= capacity
           /\ \A q \in 1..(p - 1) : used[q] \/ remaining_weights[q] > capacity

\* when the subtree of the first occupant failed the call returns False
MustFillAbandon ==
  (pc = "search" /\ stack # <<>> /\ ret = "false"
     /\ Top.at = "placed" /\ Top.residual = capacity) =>
    (stack' = stack \/ (stack' = Pop /\ ret' = "false"))

\* a call entered with an empty bin never opens the next bin
NoOpenFromEmpty == OpenStep => (Top.residual < capacity)

\* C19: a call entered with an empty bin places at most one item, the
\* lowest-index unused item that fits; if that subtree fails it returns False
\* without trying a smaller first occupant and without opening another bin.
C19_MustFill == [][MustFillPlacement /\ MustFillAbandon /\ NoOpenFromEmpty]_vars

\* the first occupant failed while a smaller unused item was available
C19_Witness ==
  /\ pc = "search" /\ stack # <<>> /\ ret = "false"
  /\ Top.at = "placed" /\ Top.residual = capacity
  /\ \E p \in (Top.i + 2)..Len(used) : ~used[p] /\ remaining_weights[p] <= capacity

\* the next bin is opened only from a bin that holds an item and into whose
\* residual no unused item at index >= start_index fits
OpensOnlyWhenNothingFits ==
  OpenStep =>
    /\ Top.residual < capacity
    /\ \A p \in (Top.start_index + 1)..Len(used) :
         used[p] \/ remaining_weights[p] > Top.residual

\* C20: with an item in the current bin, bin_idx + 1 is opened only if no
\* unused item at index >= start_index fits into the residual; a call entered
\* with an empty bin never opens the next bin.
C20_OpensOnlyWhenNothingFits == [][OpensOnlyWhenNothingFits]_vars

\* a call that already withdrew an item (the one before its loop index) places
\* only a strictly lighter one, and never an item that has an unused
\* equal-weight item before it
NoEqualWeightRetry ==
  PlaceStep =>
    \A p \in 1..Len(used) :
      (used'[p] /\ ~used[p]) =>
        /\ Top.item_placed => remaining_weights[p] < remaining_weights[Top.i]
        /\ \A q \in 1..(p - 1) : ~(remaining_weights[q] = remaining_weights[p] /\ ~used[q])

\* C21: within one call no two items of equal weight are both placed, and an
\* unused item is passed over whenever an earlier item of the same weight is
\* unused at that point.
C21_EqualWeightSymmetry == [][NoEqualWeightRetry]_vars

\* a call went on to a lighter item past an unused copy of the one it withdrew
C21_Witness ==
  /\ pc = "search" /\ stack # <<>>
  /\ Top.at = "entry" /\ Len(stack) >= 2
  /\ LET f == stack[Len(stack) - 1] IN
     /\ f.at = "placed" /\ f.item_placed
     /\ \E q \in 2..f.i : /\ q > f.start_index + 1
                          /\ ~used[q] /\ ~used[q - 1]
                          /\ remaining_weights[q] = remaining_weights[q - 1]

\* the instance is non-empty and every weight is at most C/2
AllSmall == items # <<>> /\ items[1] <= capacity \div 2

\* max(L1, max over K in {0} and the weights <= C/2 of L(K))
ThresholdFormula(its, C) == MaxOver(its, C, k_values(its, C), compute_L1(its, C))

\* C22 as stated: on a list of weights all <= C/2 compute_L2 returns the
\* value of the general threshold formula.
C22_SmallItemsSameAsThreshold ==
  (pc = "idle" /\ Valid /\ AllSmall) =>
    compute_L2(items, capacity) = ThresholdFormula(items, capacity)

\* C22 amended: on such a list compute_L2 returns max(L1, small-item routine),
\* which is at least the threshold formula (there equal to L1) and at most the
\* optimum.
C22_SmallItemsAtLeastThreshold ==
  (pc = "idle" /\ Valid /\ AllSmall) =>
    /\ compute_L2(items, capacity)
         = Max2(compute_L1(items, capacity), compute_L2_small_items(items, capacity))
    /\ ThresholdFormula(items, capacity) = compute_L1(items, capacity)
    /\ compute_L2(items, capacity) >= ThresholdFormula(items, capacity)
    /\ compute_L2(items, capacity) <= OptimalBins(items, capacity)

\* the small-item routine gives strictly more than the threshold formula
C22_Witness ==
  /\ pc = "idle" /\ Valid /\ AllSmall
  /\ compute_L2(items, capacity) > ThresholdFormula(items, capacity)
  /\ Len(items) >= 5

\* a position of the largest weight of a non-empty list
LargestAt(cur) == CHOOSE p \in 1..Len(cur) : \A q \in 1..Len(cur) : cur[q] <= cur[p]

\* positions of the other weights
OthersOf(cur) == (1..Len(cur)) \ {LargestAt(cur)}

HasPerfectPartner(cur) ==
  \E q \in OthersOf(cur) : cur[LargestAt(cur)] + cur[q] = capacity

\* a round that fixes a bin fixes the largest weight: with a perfect partner,
\* or alone when it has no perfect partner and fits beside no other weight
ReductionRound ==
  (pc = "reduce" /\ fixed_bins' # fixed_bins) =>
    LET cur == current_items
        w1 == cur[LargestAt(cur)]
        b == fixed_bins'[Len(fixed_bins')]
    IN  /\ cur # <<>>
        /\ fixed_bins' = Append(fixed_bins, b)
        /\ b[1] = w1
        /\ Len(b) \in {1, 2}
        /\ Len(current_items') = Len(cur) - Len(b)
        /\ Len(b) = 2 => (b[2] \in {cur[q] : q \in OthersOf(cur)} /\ w1 + b[2] = capacity)
        /\ Len(b) = 1 => /\ ~HasPerfectPartner(cur)
                         /\ \A q \in OthersOf(cur) : w1 + cur[q] > capacity

\* what remains when run_reduction returns
ReductionResidue ==
  (pc = "bounds") =>
    \/ remaining_weights = <<>>
    \/ /\ ~HasPerfectPartner(remaining_weights)
       /\ \E q \in 1..Len(remaining_weights) :
            remaining_weights[LargestAt(remaining_weights)] + remaining_weights[q]
              <= capacity

\* C23: every round of run_reduction acts on the largest remaining weight
\* only; it is fixed alone only when it has no perfect partner and fits beside
\* no other remaining weight; on return nothing remains, or the largest has
\* no perfect partner and largest + smallest <= C.
C23_ReductionRules ==
  /\ [][ReductionRound]_vars
  /\ [](ReductionResidue)

\* an item that fits a bin was fixed alone, after another bin, with weights left
C23_Witness ==
  /\ pc = "bounds" /\ Valid
  /\ Len(fixed_bins) >= 2
  /\ Len(fixed_bins[Len(fixed_bins)]) = 1
  /\ remaining_weights # <<>>

\* load of bin b after the items before position p were placed by a
RECURSIVE LoadBefore(_, _, _, _)
LoadBefore(ws, a, b, p) ==
  IF p <= 1 THEN 0
  ELSE (IF a[p - 1] = b THEN ws[p - 1] ELSE 0) + LoadBefore(ws, a, b, p - 1)

\* number of bins opened by the items before position p
OpenBefore(a, p) == Cardinality({a[q] : q \in 1..(p - 1)})

\* open bins into which the item at position p fits
FitsBefore(ws, C, a, p) ==
  {j \in 0..(OpenBefore(a, p) - 1) : C - LoadBefore(ws, a, j, p) >= ws[p]}

FirstFitRule(ws, C, a) ==
  \A p \in 1..Len(ws) :
    LET fits == FitsBefore(ws, C, a, p) IN
    IF fits # {} THEN a[p] \in fits /\ \A j \in fits : a[p] <= j
    ELSE a[p] = OpenBefore(a, p)

BestFitRule(ws, C, a) ==
  \A p \in 1..Len(ws) :
    LET fits == FitsBefore(ws, C, a, p) IN
    IF fits # {}
      THEN /\ a[p] \in fits
           /\ \A j \in fits :
                \/ LoadBefore(ws, a, a[p], p) > LoadBefore(ws, a, j, p)
                \/ (LoadBefore(ws, a, a[p], p) = LoadBefore(ws, a, j, p) /\ a[p] <= j)
    ELSE a[p] = OpenBefore(a, p)

CountsBins(h) ==
  /\ Len(h.assignment) = Len(items)
  /\ h.bins = Cardinality({h.assignment[p] : p \in 1..Len(items)})

\* C24: first_fit_decreasing puts each item, in order, into the lowest open
\* bin that fits; best_fit_decreasing into the fitting open bin of smallest
\* residual, lowest index on ties; a bin is opened only when none fits; the
\* count returned is the number of distinct bins of the assignment.
C24_GreedyRules ==
  (pc = "idle") =>
    LET f == first_fit_decreasing(items, capacity)
        b == best_fit_decreasing(items, capacity)
    IN  /\ FirstFitRule(items, capacity, f.assignment)
        /\ BestFitRule(items, capacity, b.assignment)
        /\ CountsBins(f) /\ CountsBins(b)

\* the two heuristics place some item differently
C24_Witness ==
  /\ pc = "idle" /\ Valid
  /\ Len(items) >= 4
  /\ first_fit_decreasing(items, capacity).assignment
       # best_fit_decreasing(items, capacity).assignment

\* C25: on every item sequence with sizes in (0, capacity] the segment-tree
\* first fit completes without error and returns the count and the per-bin
\* item lists of the naive first fit.
C25_SegmentTreeSameAsNaive ==
  (h_pc \in {"returned", "raised"}) =>
    /\ h_pc = "returned"
    /\ <<Len(h_bins), h_bins>> = run_ff(h_items)

\* inorder list of the <<capacity, bin>> entries of a tree
RECURSIVE Entries(_)
Entries(node) ==
  IF node = <<>> THEN <<>>
  ELSE Entries(node[1].left) \o <<<<node[1].capacity, node[1].bin>>>>
         \o Entries(node[1].right)

StoredItems == Flatten([b \in 1..Len(h_bins) |-> h_bins[b].items])

EveryItemStoredOnce ==
  /\ Len(StoredItems) = h_k
  /\ \A w \in HeurSizes : CountOf(StoredItems, w) = CountOf(h_items, w)

OneEntryPerBin ==
  LET e == Entries(avl_root) IN
  /\ Len(e) = Len(h_bins)
  /\ \A b \in 1..Len(h_bins) :
       \E q \in 1..Len(e) : e[q] = <<h_bins[b].remaining, b>>

\* C26: after every step of the AVL best fit every item consumed is stored
\* in exactly one bin, the tree holds exactly one entry per bin keyed by the
\* bin's remaining capacity, and the bin count is that of the naive best fit.
C26_AvlBestFit ==
  (h_pc \in {"bf_avl", "returned"}) =>
    /\ EveryItemStoredOnce
    /\ OneEntryPerBin
    /\ Len(h_bins) = run_bf(h_items)[1]

\* a call of the search is running: it was entered and has not yet returned
SearchRunning == pc = "search" /\ stack # <<>> /\ ret = "none"

UsedCount == Cardinality({p \in 1..Len(used) : used[p]})

\* total weight of the items the assignment buffer puts into bin b
AssignedLoad(b) ==
  SumSeq([p \in 1..Len(assignment) |->
            IF assignment[p] = b THEN remaining_weights[p] ELSE 0])

\* the pending placements of bin b, bottom of the stack first, go up in index
PlacedInIndexOrder ==
  \A f, g \in 1..Len(stack) :
    (/\ f < g
     /\ stack[f].at = "placed" /\ stack[g].at = "placed"
     /\ stack[f].bin_idx = stack[g].bin_idx) => stack[f].i < stack[g].i

\* every assigned item is the pending placement of exactly one caller
AssignedArePlacements ==
  \A p \in 1..Len(assignment) :
    assignment[p] # Unassigned <=>
      \E f \in 1..Len(stack) :
        /\ stack[f].at = "placed"
        /\ stack[f].i = p - 1
        /\ stack[f].bin_idx = assignment[p]

BookkeepingMarks ==
  /\ Len(used) = Len(remaining_weights)
  /\ Len(assignment) = Len(remaining_weights)
  /\ \A p \in 1..Len(used) : used[p] <=> assignment[p] # Unassigned
  /\ Top.items_packed = UsedCount

BookkeepingBins ==
  /\ \A p \in 1..Len(assignment) :
       assignment[p] # Unassigned => assignment[p] \in 0..Top.bin_idx
  /\ Top.residual = capacity - AssignedLoad(Top.bin_idx)
  /\ Top.residual >= 0
  /\ \A b \in 0..Top.bin_idx : AssignedLoad(b) <= capacity

BinIndexBelowTarget == Top.bin_idx < target

\* the call has passed the limit check of line 394
PastLimitCheck == Top.at # "entry"

BinIndexUpToTarget ==
  /\ Top.bin_idx <= target
  /\ PastLimitCheck => Top.bin_idx < target

GenuineFailures ==
  \A p \in 1..Len(searched) :
    searched[p] \notin succeeded =>
      /\ searched[p] \notin timeoutTargets
      /\ ~Packable(remaining_weights, capacity, searched[p])

\* C28: a result that comes from a successful search is the true optimum
\* whatever the clock did: no time check of the call observed expiry, and
\* every smaller target failed because no packing into it exists.
C28_SuccessMeansOptimum ==
  (pc = "done" /\ Valid /\ found_optimal) =>
    /\ result[1] = OptimalBins(items, capacity)
    /\ ~timedOut
    /\ GenuineFailures

\* a second target succeeded under the tightest time limit
C28_Witness ==
  /\ pc = "done" /\ Valid /\ found_optimal
  /\ time_limit = 0
  /\ Len(searched) >= 2

\* the search under way is for a target later than one that was abandoned
LaterTarget == pc = "search" /\ \E t \in timeoutTargets : t < target

\* in a later target only the top-level call exists, it is not expanded and
\* no item is marked or assigned
LaterTargetFailsAtRoot ==
  (LaterTarget /\ remaining_weights # <<>>) =>
    /\ nodes_explored = 0
    /\ \A p \in 1..Len(used) : ~used[p] /\ assignment[p] = Unassigned
    /\ \/ Len(stack) = 1 /\ Top.at = "entry" /\ ret = "none"
       \/ stack = <<>> /\ ret = "false"

\* a later target is left only by the failure of its search
LaterTargetStep ==
  (LaterTarget /\ remaining_weights # <<>> /\ stack = <<>> /\ pc' # pc) =>
    (pc' = "target" /\ target' = target + 1 /\ target \in timeoutTargets)

\* once a target was abandoned solve returns the heuristic solution
EndsWithFallback ==
  (pc = "done" /\ timedOut) =>
    /\ ~found_optimal
    /\ result = <<ub, heuristic_solution(ffd, bfd)>>
    /\ \A p \in 1..Len(searched) :
         (\E t \in timeoutTargets : t <= searched[p]) => searched[p] \in timeoutTargets

\* C29: after a time check observed expiry in a target's search, the search of
\* every later target returns False from its top-level call without expanding
\* it or placing an item, and solve ends with the heuristic fallback.
C29_LaterTargetsFailAtOnce ==
  /\ [](LaterTargetFailsAtRoot /\ EndsWithFallback)
  /\ [][LaterTargetStep]_vars

\* two targets were abandoned in one call of solve, which then returned
C29_Witness ==
  /\ pc = "done" /\ Valid
  /\ Cardinality(timeoutTargets) >= 2
  /\ Len(remaining_weights) >= 1

\* a round of the reduction loop removes a weight or leaves the loop
ReductionProgress ==
  (pc = "reduce" /\ now' = now) =>
    (Len(current_items') < Len(current_items) \/ pc' # "reduce")

\* every iteration of the outer loop of the small-item routine, from the loop
\* state (i, ratio, max_lb) on, breaks, advances i or raises the ratio
RECURSIVE SmallItemsProgress(_, _, _, _, _)
SmallItemsProgress(its, C, i, ratio, max_lb) ==
  IF i >= Len(its) THEN TRUE
  ELSE LET st == SmallItemsIter(its, C, i, ratio, max_lb) IN
       \/ st.exit
       \/ /\ (st.i > i \/ st.ratio > ratio)
          /\ SmallItemsProgress(its, C, st.i, st.ratio, st.max_lb)

SmallItemsTerminates ==
  (pc = "idle" /\ Valid /\ AllSmall) =>
    SmallItemsProgress(items, capacity, 1, capacity \div items[1], 0)

\* position of a call in its own code: the loop index, then the stage
CallRank(f) ==
  3 * f.i + (CASE f.at = "entry" -> 0 [] f.at = "loop" -> 1 [] OTHER -> 2)

\* larger than the rank of any call
ReturnRank == 3 * Len(remaining_weights) + 3

\* the calls on the stack, outermost first, then the return value in flight
SearchRank ==
  [f \in 1..Len(stack) |-> CallRank(stack[f])]
    \o (IF ret # "none" THEN <<ReturnRank>> ELSE <<>>)

PhaseRank ==
  CASE pc = "idle" -> 0
    [] pc = "reduce" -> 1
    [] pc = "bounds" -> 2
    [] pc \in {"target", "search"} -> 3
    [] pc = "reconstruct" -> 4
    [] OTHER -> 5

\* how far solve has come: phase, weights removed by the reduction, target,
\* and within a search the position of the recursion
SolveRank ==
  <<PhaseRank, Len(items) - Len(current_items), target>>
    \o (IF pc = "search" THEN <<1>> \o SearchRank ELSE <<0>>)

\* a is before b in the lexicographic order, and neither is a prefix of the other
LexBefore(a, b) ==
  \E k \in 1..Min2(Len(a), Len(b)) :
    /\ a[k] < b[k]
    /\ \A j \in 1..(k - 1) : a[j] = b[j]

\* every step of the program moves solve forward
SolveAdvances == (Valid /\ now' = now) => LexBefore(SolveRank, SolveRank')

\* the ranks are taken from a finite set
RankBounded ==
  (Valid /\ pc \in {"target", "search"}) =>
    /\ target <= end_target
    /\ Len(stack) <= Len(remaining_weights) + target + 1
    /\ \A f \in 1..Len(stack) : stack[f].i \in 0..Len(remaining_weights)

\* C30: on a valid instance every round of the reduction removes a weight or
\* exits, every outer iteration of the small-item routine advances the index,
\* raises the ratio or exits, and every step of a search and of solve moves a
\* bounded rank strictly forward, so each search and solve itself end after
\* finitely many steps.
C30_SolveTerminates ==
  /\ [][ReductionProgress]_vars
  /\ [][SolveAdvances]_vars
  /\ [](SmallItemsTerminates /\ RankBounded)

\* solve returned after a reduction that fixed a bin and a search that
\* expanded two nodes and cut a branch
C30_Witness ==
  /\ pc = "done" /\ Valid
  /\ num_fixed >= 1
  /\ Len(searched) >= 1
  /\ nodes_explored >= 2
  /\ backtracks >= 1

====
